---- MODULE Spec2Model ----
(***************************************************************************)
(* Model of the token-stream core of red-sea-pp (src/lib.rs): the Atom /   *)
(* Source protocol, the queue-backed TestTokenSource, and the              *)
(* MacroExpandingTokenSource that wraps an upstream source and a macro     *)
(* table.                                                                  *)
(***************************************************************************)
EXTENDS Integers, Sequences, FiniteSets, TLC

(* ------------------------------ bounds -------------------------------- *)
\* longest upstream stream drawn from the alphabets below
MaxLen == 3
\* most calls to next (on the expander and on the bare stream together)
MaxCalls == 5

(* ------------------------- Atom (lib.rs 23-27) ------------------------ *)
Datum(token) == [atom |-> "Datum", token |-> token]
Error(error) == [atom |-> "Error", error |-> error]
Empty == [atom |-> "Empty"]

(* ------------------ PreprocessingToken (lib.rs 37-50) ----------------- *)
Identifier(s) == [kind |-> "Identifier", value |-> s]
PreprocessingNumber(s) == [kind |-> "PreprocessingNumber", value |-> s]
Punctuator(p) == [kind |-> "Punctuator", value |-> p]
Newline == [kind |-> "Newline"]

(* --------------------- Punctuator (lib.rs 58-116) --------------------- *)
LeftParen(separation) == [punct |-> "LeftParen", separation |-> separation]
RightParen == [punct |-> "RightParen"]
Add == [punct |-> "Add"]
ParameterSeparator == [punct |-> "ParameterSeparator"]
PreprocessingConcat == [punct |-> "PreprocessingConcat"]

(* ------------------------ Macro (lib.rs 140-143) ---------------------- *)
Object(tokens) == [kind |-> "Object", tokens |-> tokens]
Function(parameters, tokens) ==
    [kind |-> "Function", parameters |-> parameters, tokens |-> tokens]

(* Macros::new (lib.rs 150-154): the empty definitions map *)
Macros_new == [definitions |-> [id \in {} |-> Object(<<>>)]]

Macros_with(defs) == [definitions |-> defs]

(* ------------------- macro tables handed to the expander -------------- *)
Open == Punctuator(LeftParen("None"))
Close == Punctuator(RightParen)
Comma == Punctuator(ParameterSeparator)
Plus == Punctuator(Add)
Num1 == PreprocessingNumber("1")
Num2 == PreprocessingNumber("2")

FooTable == Macros_with([FOO |-> Object(<<Num1, Plus, Num2>>)])
AddTable ==
    Macros_with([ADD |-> Function(<<"a", "b">>,
                                  <<Identifier("a"), Plus, Identifier("b")>>)])
SelfTable == Macros_with([A |-> Object(<<Identifier("A")>>)])
MutualTable == Macros_with([A |-> Object(<<Identifier("B")>>),
                            B |-> Object(<<Identifier("A")>>)])
FTable == Macros_with([F |-> Function(<<"x">>, <<Identifier("x")>>)])
CatTable ==
    Macros_with([CAT |-> Function(<<"a", "b">>,
                                  <<Identifier("a"),
                                    Punctuator(PreprocessingConcat),
                                    Identifier("b")>>)])

Tables ==
    {Macros_new, FooTable, AddTable, SelfTable, MutualTable, FTable, CatTable}

(* ------------------------- upstream streams --------------------------- *)
RECURSIVE SeqsUpTo(_, _)
SeqsUpTo(S, n) ==
    IF n = 0 THEN {<<>>}
    ELSE LET shorter == SeqsUpTo(S, n - 1)
         IN shorter \cup {Append(s, x) : s \in shorter, x \in S}

\* tests::pass_through (lib.rs 222-226)
PassThroughTokens ==
    <<Identifier("A"), Identifier("B"), PreprocessingNumber("1234")>>

FooStream == <<Identifier("FOO")>>
AddStream == <<Identifier("ADD"), Open, Num1, Comma, Num2, Close>>
AddShortStream == <<Identifier("ADD"), Open, Num1, Close>>
CatStream ==
    <<Identifier("CAT"), Open, Identifier("fo"), Comma, Identifier("o"), Close>>

TokenAlphabet ==
    {Identifier("A"), Identifier("F"), PreprocessingNumber("1234"),
     Newline, Open}

TokenStreams ==
    SeqsUpTo(TokenAlphabet, MaxLen)
        \cup {PassThroughTokens, FooStream, AddStream, AddShortStream,
              CatStream}

\* outcomes a failing implementor of Source may produce before it dries up
AtomAlphabet ==
    {Datum(Identifier("A")), Datum(Newline), Error("e1"), Error("e2")}

AtomStreams == SeqsUpTo(AtomAlphabet, MaxLen)

(* ------------------ TestTokenSource (lib.rs 197-218) ------------------ *)
RECURSIVE push_back_all(_, _)
push_back_all(token_queue, tokens) ==
    IF tokens = <<>> THEN token_queue
    ELSE push_back_all(Append(token_queue, Head(tokens)), Tail(tokens))

TestTokenSource_new(tokens) ==
    [impl |-> "TestTokenSource", token_queue |-> push_back_all(<<>>, tokens)]

\* a next that reads the front of the queue without removing it
TestTokenSource_next_front(self) ==
    IF self.token_queue # <<>>
    THEN [atom |-> Datum(Head(self.token_queue)), self |-> self]
    ELSE [atom |-> Empty, self |-> self]

TestTokenSource_next(self) ==
    IF self.token_queue # <<>>
    THEN [atom |-> Datum(Head(self.token_queue)),
          self |-> [self EXCEPT !.token_queue = Tail(@)]]
    ELSE [atom |-> Empty, self |-> self]

(* Another implementor of Source (lib.rs 13-15): it replays a fixed list   *)
(* of Datum and Error outcomes and is Empty from then on.                  *)
ScriptedSource_new(atoms) == [impl |-> "ScriptedSource", script |-> atoms]

ScriptedSource_next(self) ==
    IF self.script # <<>>
    THEN [atom |-> Head(self.script),
          self |-> [self EXCEPT !.script = Tail(@)]]
    ELSE [atom |-> Empty, self |-> self]

\* dyn Source dispatch (lib.rs 31)
Source_next(self) ==
    IF self.impl = "TestTokenSource" THEN TestTokenSource_next(self)
    ELSE ScriptedSource_next(self)

(* ------------- MacroExpandingTokenSource (lib.rs 162-187) ------------- *)
\* token_stream is a &mut borrow: the referent's state is passed to next
\* and handed back by it.
MacroExpandingTokenSource_new(macros, token_stream) ==
    [macros |-> macros, token_stream |-> "test_stream"]

\* a next that drops Newline tokens and pulls again
MacroExpandingTokenSource_next_skip_newline(self, referent) ==
    LET first == Source_next(referent)
        skip == first.atom.atom = "Datum" /\ first.atom.token = Newline
        second == Source_next(first.self)
        last == IF skip THEN second ELSE first
    IN [atom |-> last.atom,
        self |-> self,
        referent |-> last.self,
        pulled |-> IF skip THEN <<first.atom, second.atom>>
                   ELSE <<first.atom>>]

\* a next that reports the end of the stream at a Newline token
MacroExpandingTokenSource_next_newline_ends(self, referent) ==
    LET upstream == Source_next(referent)
    IN [atom |-> IF upstream.atom.atom = "Datum"
                    /\ upstream.atom.token = Newline
                 THEN Empty ELSE upstream.atom,
        self |-> self,
        referent |-> upstream.self,
        pulled |-> <<upstream.atom>>]

\* a next that replaces the upstream error by its own message
MacroExpandingTokenSource_next_own_error(self, referent) ==
    LET upstream == Source_next(referent)
    IN [atom |-> IF upstream.atom.atom = "Error"
                 THEN Error("upstream failure") ELSE upstream.atom,
        self |-> self,
        referent |-> upstream.self,
        pulled |-> <<upstream.atom>>]

MacroExpandingTokenSource_next(self, referent) ==
    LET upstream == Source_next(referent)
    IN [atom |-> CASE upstream.atom.atom = "Datum" ->
                        Datum(upstream.atom.token)
                   [] upstream.atom.atom = "Error" ->
                        Error(upstream.atom.error)
                   [] upstream.atom.atom = "Empty" -> Empty,
        self |-> self,
        referent |-> upstream.self,
        pulled |-> <<upstream.atom>>]

(* ------------------------------- state -------------------------------- *)
VARIABLES
    test_stream,        \* the upstream source
    expanding_stream,   \* the expander borrowing test_stream
    borrowed,           \* TRUE while expanding_stream is in scope
    returned,           \* atoms returned by expanding_stream.next, in order
    pulls,              \* per call of expanding_stream.next: upstream outcomes
    direct,             \* atoms returned by test_stream.next after the borrow
    upstream0,          \* test_stream as constructed
    macros0             \* the macro table as handed to the expander

vars == <<test_stream, expanding_stream, borrowed, returned, pulls, direct,
          upstream0, macros0>>

Calls == Len(returned) + Len(direct)

Init ==
    /\ test_stream \in {TestTokenSource_new(tokens) : tokens \in TokenStreams}
                         \cup {ScriptedSource_new(atoms) : atoms \in AtomStreams}
    /\ macros0 \in Tables
    /\ expanding_stream = MacroExpandingTokenSource_new(macros0, test_stream)
    /\ borrowed = TRUE
    /\ returned = <<>>
    /\ pulls = <<>>
    /\ direct = <<>>
    /\ upstream0 = test_stream

\* expanding_stream.next() (lib.rs 180-186, called at lib.rs 231)
ExpandingNext ==
    /\ borrowed
    /\ Calls < MaxCalls
    /\ LET r == MacroExpandingTokenSource_next(expanding_stream, test_stream)
       IN /\ expanding_stream' = r.self
          /\ test_stream' = r.referent
          /\ returned' = Append(returned, r.atom)
          /\ pulls' = Append(pulls, r.pulled)
    /\ UNCHANGED <<borrowed, direct, upstream0, macros0>>

\* expanding_stream goes out of scope; the borrow of test_stream ends
DropExpander ==
    /\ borrowed
    /\ borrowed' = FALSE
    /\ UNCHANGED <<test_stream, expanding_stream, returned, pulls, direct,
                   upstream0, macros0>>

\* test_stream.next() called on the bare stream
DirectNext ==
    /\ ~borrowed
    /\ Calls < MaxCalls
    /\ LET r == Source_next(test_stream)
       IN /\ test_stream' = r.self
          /\ direct' = Append(direct, r.atom)
    /\ UNCHANGED <<expanding_stream, borrowed, returned, pulls, upstream0,
                   macros0>>

Next == ExpandingNext \/ DropExpander \/ DirectNext

Spec == Init /\ [][Next]_vars

(* ------------------------- helpers for claims ------------------------- *)
IsDatum(a) == a.atom = "Datum"

\* the tokens of the leading run of Datum atoms
RECURSIVE DatumPrefix(_)
DatumPrefix(atoms) ==
    IF atoms = <<>> \/ ~IsDatum(Head(atoms)) THEN <<>>
    ELSE <<Head(atoms).token>> \o DatumPrefix(Tail(atoms))

IsPrefix(s, t) == Len(s) <= Len(t) /\ SubSeq(t, 1, Len(s)) = s

\* the outcomes a freshly built upstream produces before it dries up
UpstreamAtoms(stream) ==
    IF stream.impl = "TestTokenSource"
    THEN [i \in 1..Len(stream.token_queue) |-> Datum(stream.token_queue[i])]
    ELSE stream.script

IsMacroName(token, macros) ==
    /\ token.kind = "Identifier"
    /\ token.value \in DOMAIN macros.definitions

NoMacroIdentifiers(stream, macros) ==
    \A i \in 1..Len(UpstreamAtoms(stream)) :
        IsDatum(UpstreamAtoms(stream)[i])
            => ~IsMacroName(UpstreamAtoms(stream)[i].token, macros)

Stopped == \E i \in 1..Len(returned) : ~IsDatum(returned[i])

Scenario(macros, tokens) ==
    macros0 = macros /\ upstream0 = TestTokenSource_new(tokens)

\* returned agrees with: the Datums of tokens, then Empty for ever
YieldsThenEmpty(tokens) ==
    \A i \in 1..Len(returned) :
        returned[i] = IF i <= Len(tokens) THEN Datum(tokens[i]) ELSE Empty

(* ------------------------------- claims ------------------------------- *)

\* C1: when no identifier of the upstream stream is a key of the macro
\* table, the Datums returned by the expander up to its first non-Datum
\* result are the upstream tokens up to the upstream's first non-Datum
\* outcome: same tokens, same order, none added, none removed.
C1_PassThrough ==
    NoMacroIdentifiers(upstream0, macros0) =>
        /\ IsPrefix(DatumPrefix(returned), DatumPrefix(UpstreamAtoms(upstream0)))
        /\ Stopped =>
              DatumPrefix(returned) = DatumPrefix(UpstreamAtoms(upstream0))

C1_Witness ==
    /\ Scenario(Macros_new, PassThroughTokens)
    /\ returned = <<Datum(Identifier("A")), Datum(Identifier("B")),
                    Datum(PreprocessingNumber("1234")), Empty>>

\* C2: with FOO defined as the object macro 1 + 2, expanding [FOO] yields
\* the Datums 1, +, 2 and then Empty; FOO itself is never yielded.
C2_ObjectSubstitution ==
    Scenario(FooTable, FooStream) => YieldsThenEmpty(<<Num1, Plus, Num2>>)

\* C3: with ADD(a,b) defined as a + b, expanding [ADD, (, 1, ',', 2, )]
\* yields the Datums 1, +, 2 and then Empty.
C3_FunctionSubstitution ==
    Scenario(AddTable, AddStream) =>
        \A i \in 1..Len(returned) :
            returned[i] = IF i <= 3 THEN Datum(<<Num1, Plus, Num2>>[i])
                          ELSE Empty

\* C4: with ADD(a,b) a two-parameter function macro, expanding
\* [ADD, (, 1, )] returns an Error, and no token is returned as a Datum
\* before or instead of it.
C4_ArityMismatch ==
    Scenario(AddTable, AddShortStream) =>
        /\ Len(returned) >= 1 => returned[1].atom = "Error"
        /\ \A i \in 1..Len(returned) : ~IsDatum(returned[i])

\* C5: with A defined as A, or A as B and B as A, expanding the stream [A]
\* yields exactly one token (A; or A or B in the mutual case) and every
\* later call returns Empty: no unbounded token sequence is produced.
C5_RecursionTerminates ==
    /\ Scenario(SelfTable, <<Identifier("A")>>) =>
          YieldsThenEmpty(<<Identifier("A")>>)
    /\ Scenario(MutualTable, <<Identifier("A")>>) =>
          \/ YieldsThenEmpty(<<Identifier("A")>>)
          \/ YieldsThenEmpty(<<Identifier("B")>>)

C5_Witness ==
    /\ \/ Scenario(SelfTable, <<Identifier("A")>>)
       \/ Scenario(MutualTable, <<Identifier("A")>>)
    /\ returned = <<Datum(Identifier("A")), Empty, Empty>>

\* C6: in every call of the expander's next, an upstream Error(e) is
\* returned as Error(e) with the same payload, an upstream Empty as Empty,
\* and an upstream Datum that names no macro is returned as that Datum.
C6_Propagation ==
    \A i \in 1..Len(returned) :
        \A k \in 1..Len(pulls[i]) :
            LET up == pulls[i][k]
            IN /\ up.atom = "Error" => returned[i] = Error(up.error)
               /\ up.atom = "Empty" => returned[i] = Empty
               /\ (IsDatum(up) /\ ~IsMacroName(up.token, macros0)) =>
                      IsDatum(returned[i])

C6_Witness ==
    /\ upstream0 = ScriptedSource_new(<<Datum(Identifier("A")), Error("e2")>>)
    /\ returned = <<Datum(Identifier("A")), Error("e2"), Empty>>

\* C7: once next of the TestTokenSource, or of the expander wrapping it,
\* has returned Empty, every later call on that source returns Empty.
OnceEmpty(atoms) ==
    \A i, j \in 1..Len(atoms) : (i < j /\ atoms[i] = Empty) => atoms[j] = Empty

UpstreamOutcomes ==
    [i \in 1..Len(pulls) |-> pulls[i][Len(pulls[i])]] \o direct

C7_IdempotentExhaustion ==
    upstream0.impl = "TestTokenSource" =>
        /\ OnceEmpty(returned)
        /\ OnceEmpty(UpstreamOutcomes)

C7_Witness ==
    /\ Scenario(Macros_new, <<Newline, Identifier("A")>>)
    /\ returned = <<Datum(Newline), Datum(Identifier("A")), Empty, Empty>>
    /\ direct = <<Empty>>

\* C8: when F names a function macro and an F in the stream is not
\* followed, after any Newlines, by a left parenthesis, F is yielded
\* unchanged and every token after it is yielded once, in order.
RECURSIVE NextSignificant(_, _)
NextSignificant(tokens, i) ==
    IF i > Len(tokens) THEN Empty
    ELSE IF tokens[i] = Newline THEN NextSignificant(tokens, i + 1)
    ELSE Datum(tokens[i])

IsLeftParen(a) ==
    /\ IsDatum(a)
    /\ a.token.kind = "Punctuator"
    /\ a.token.value.punct = "LeftParen"

NonInvocation(tokens, macros, i) ==
    /\ IsMacroName(tokens[i], macros)
    /\ macros.definitions[tokens[i].value].kind = "Function"
    /\ ~IsLeftParen(NextSignificant(tokens, i + 1))

C8_NonInvocation ==
    upstream0.impl = "TestTokenSource" =>
        LET tokens == upstream0.token_queue
            yielded == DatumPrefix(returned)
        IN \A i \in 1..Len(tokens) :
              NonInvocation(tokens, macros0, i) =>
                 /\ \A j \in i..Len(yielded) :
                       j <= Len(tokens) /\ yielded[j] = tokens[j]
                 /\ Stopped => Len(yielded) = Len(tokens)

C8_Witness ==
    /\ Scenario(FTable, <<Identifier("F"), Newline, Identifier("A")>>)
    /\ returned = <<Datum(Identifier("F")), Datum(Newline),
                    Datum(Identifier("A")), Empty>>

\* C9: with CAT(a,b) defined as a ## b, expanding CAT(fo, o) yields the
\* single identifier foo and then Empty.
C9_Paste ==
    Scenario(CatTable, CatStream) => YieldsThenEmpty(<<Identifier("foo")>>)

\* C10: every call of the expander's next pulls the upstream exactly once
\* and returns that outcome; the expander's fields, the macro table among
\* them, are what they were at construction.
C10_LockStep ==
    /\ Len(pulls) = Len(returned)
    /\ \A i \in 1..Len(returned) :
          Len(pulls[i]) = 1 /\ returned[i] = pulls[i][1]
    /\ expanding_stream = MacroExpandingTokenSource_new(macros0, upstream0)

C10_Witness ==
    /\ Scenario(FooTable, <<Newline, Identifier("A"), Newline>>)
    /\ Len(returned) = 4
    /\ test_stream.token_queue = <<>>

====
